---- MODULE Spec2Model ----
(***************************************************************************)
(* A model of google_maps.py: the request gateway make_google_request and  *)
(* the seven tool operations built on it.                                  *)
(*                                                                         *)
(* Text is a sequence of tokens (strings).  A literal of the source is one *)
(* or two tokens, a field value copied from the upstream payload is one    *)
(* token, and text the code edits character by character (step             *)
(* instructions, review text) is one token per character.                  *)
(*                                                                         *)
(* A Python dict is a record whose DOMAIN is the set of keys present; a    *)
(* subscript d[k] of an absent key raises, d.get(k, default) does not.     *)
(***************************************************************************)
EXTENDS Integers, Sequences, FiniteSets, TLC

VARIABLES
    apiKey,       \* GOOGLE_MAPS_API_KEY, read from the environment at startup
    pc,           \* pc[t]: where task t stands: idle, awaiting, closing, done
    call,         \* call[t]: the tool operation and its arguments
    params,       \* params[t]: the parameter mapping of the invocation
    data,         \* data[f]: what the gateway returns to the frame f
    upstream,     \* upstream[t]: the upstream outcome the invocation met
    result,       \* result[t]: what the operation gave its caller
    calls,        \* calls[t]: gateway calls made by the current invocation
    log,          \* the lines printed by the gateway, in order
    invocations,  \* tool invocations started
    gatewayCalls, \* calls of make_google_request
    httpGets      \* HTTP GET requests issued

vars == <<apiKey, pc, call, params, data, upstream, result, calls, log, invocations,
          gatewayCalls, httpGets>>

---------------------------------------------------------------------------
(* Bounds of the model *)

NumTasks == 2
MaxInvocations == 3
SeqInvocations == 2
MaxFragments == 3
MaxSteps == 12
MaxReviews == 5
MaxOrigins == 2
MaxDestinations == 2

Tasks == 1..NumTasks

---------------------------------------------------------------------------
(* Python helpers *)

Has(d, k) == k \in DOMAIN d

Get(d, k, default) == IF Has(d, k) THEN d[k] ELSE default

Min(a, b) == IF a < b THEN a ELSE b

\* seq[:n]
Take(seq, n) == SubSeq(seq, 1, Min(n, Len(seq)))

RECURSIVE Flatten(_)
Flatten(seqs) == IF seqs = <<>> THEN <<>> ELSE Head(seqs) \o Flatten(Tail(seqs))

\* sep.join(items): each item is a text
RECURSIVE Join(_, _)
Join(sep, items) ==
    IF items = <<>> THEN <<>>
    ELSE IF Len(items) = 1 THEN items[1]
    ELSE items[1] \o sep \o Join(sep, Tail(items))

\* sep.join(items): each item is a string
RECURSIVE JoinStr(_, _)
JoinStr(sep, items) ==
    IF items = <<>> THEN ""
    ELSE IF Len(items) = 1 THEN items[1]
    ELSE items[1] \o sep \o JoinStr(sep, Tail(items))

Contains(text, token) == \E i \in 1..Len(text) : text[i] = token

\* None, as a value of Optional[...] arguments and as the gateway's absent result
None == [none |-> TRUE]
IsNone(v) == Has(v, "none")
Some(v) == [val |-> v]

\* what an awaited call gives back: a value, or an exception
Returned(text) == [raised |-> FALSE, text |-> text]
Raised == [raised |-> TRUE, text |-> <<>>]
NoResult == [raised |-> FALSE, text |-> <<>>]

---------------------------------------------------------------------------
(* The request gateway *)

GOOGLE_MAPS_BASE_URL == "https://maps.googleapis.com/maps/api"

Endpoint(op) ==
    CASE op = "geocode_address" -> "geocode/json"
      [] op = "reverse_geocode" -> "geocode/json"
      [] op = "search_places" -> "place/textsearch/json"
      [] op = "get_place_details" -> "place/details/json"
      [] op = "get_directions" -> "directions/json"
      [] op = "calculate_distance_matrix" -> "distancematrix/json"
      [] op = "get_elevation" -> "elevation/json"

\* params["key"] = GOOGLE_MAPS_API_KEY: the mapping handed to client.get
WithKey(p, key) == Append(p, <<"key", key>>)

\* the request URL as httpx builds it: base, endpoint and the query string
RECURSIVE Query(_)
Query(p) ==
    IF p = <<>> THEN <<>>
    ELSE <<p[1][1], "=", p[1][2]>> \o (IF Len(p) = 1 THEN <<>> ELSE <<"&">>) \o Query(Tail(p))

Url(endpoint, p) == <<GOOGLE_MAPS_BASE_URL, "/", endpoint, "?">> \o Query(p)

(* An upstream outcome o is what client.get, raise_for_status and          *)
(* response.json() make of the request:                                    *)
(*   transport   client.get raises (connection error, timeout)             *)
(*   http_error  raise_for_status raises HTTPStatusError, whose message is *)
(*               "<kind> '<status>' for url '<url>' ..."                   *)
(*   not_json    response.json() raises                                    *)
(*   non_dict    the body parses to a value with no .get (a list, null)    *)
(*   json        the body parses to a dict, o.body                         *)
NoBody == [nobody |-> TRUE]

TransportError == [kind |-> "transport", body |-> NoBody]
HttpError == [kind |-> "http_error", body |-> NoBody]
NotJson == [kind |-> "not_json", body |-> NoBody]
NonDict == [kind |-> "non_dict", body |-> NoBody]
Json(body) == [kind |-> "json", body |-> body]

\* data.get("status") != "OK"
StatusNotOK(body) == ~(Has(body, "status") /\ body.status = "OK")

\* make_google_request without its check of the status field
make_google_request_unchecked(o) ==
    IF o.kind = "json" THEN o.body ELSE None

\* the value make_google_request returns
make_google_request(o) ==
    IF o.kind = "json" /\ ~StatusNotOK(o.body) THEN o.body ELSE None

\* str(e) of the exception caught at "except Exception as e"
ExceptionMessage(o, url) ==
    CASE o.kind = "transport" -> <<"All connection attempts failed">>
      [] o.kind = "http_error" ->
            <<"Client error '403 Forbidden' for url '">> \o url \o <<"'">>
      [] o.kind = "not_json" -> <<"Expecting value: line 1 column 1 (char 0)">>
      [] o.kind = "non_dict" -> <<"object has no attribute 'get'">>

\* the lines make_google_request prints while handling outcome o
GatewayPrints(o, url) ==
    IF o.kind = "json"
    THEN IF StatusNotOK(o.body)
         THEN << <<"Google Maps API error: ",
                   Get(o.body, "error_message", Get(o.body, "status", "None"))>> >>
         ELSE <<>>
    ELSE << <<"Request failed: ">> \o ExceptionMessage(o, url) >>

\* a gateway that sends the request a second time
GetsPerRequestRetried == 1 + 1

\* client.get calls per gateway call
GetsPerRequest == 1

---------------------------------------------------------------------------
(* The tool operations.  Each has two halves around its one await: the     *)
(* parameter mapping it builds (or the text it returns without calling the *)
(* gateway), and the report it renders from what the gateway returned.     *)

\* not data.get(k), for a list-valued k
NoList(d, k) == ~Has(d, k) \/ Len(d[k]) = 0

\* d[k1][k2] raises
Missing2(d, k1, k2) == ~Has(d, k1) \/ ~Has(d[k1], k2)

(* geocode_address *)

geocode_address_params(args) == << <<"address", args.address>> >>

geocode_address(args, d) ==
    IF IsNone(d) \/ NoList(d, "results")
    THEN Returned(<<"Unable to", " geocode the provided address.">>)
    ELSE LET r == d.results[1] IN
         IF \/ Missing2(r, "geometry", "location")
            \/ ~Has(r.geometry.location, "lat")
            \/ ~Has(r.geometry.location, "lng")
            \/ ~Has(r, "formatted_address")
            \/ ~Has(r, "place_id")
         THEN Raised
         ELSE Returned(<<"\nAddress: ", r.formatted_address,
                         "\nCoordinates: ", r.geometry.location.lat, ", ",
                         r.geometry.location.lng,
                         "\nPlace ID: ", r.place_id, "\n">>)

(* reverse_geocode *)

reverse_geocode_params(args) ==
    << <<"latlng", args.latitude \o "," \o args.longitude>> >>

reverse_geocode(args, d) ==
    IF IsNone(d) \/ NoList(d, "results")
    THEN Returned(<<"Unable to", " reverse geocode the provided coordinates.">>)
    ELSE LET r == d.results[1] IN
         IF ~Has(r, "formatted_address") \/ ~Has(r, "place_id")
         THEN Raised
         ELSE Returned(<<"\nFormatted Address: ", r.formatted_address,
                         "\nPlace ID: ", r.place_id,
                         "\nCoordinates: ", args.latitude, ", ", args.longitude, "\n">>)

(* search_places *)

\* "if location:" and "if radius:": the truth value of an Optional argument
TruthyStr(v) == ~IsNone(v) /\ v.val # ""
TruthyInt(v) == ~IsNone(v) /\ v.val # 0

search_places_params(args) ==
    << <<"query", args.query>> >>
    \o (IF TruthyStr(args.location) THEN << <<"location", args.location.val>> >> ELSE <<>>)
    \o (IF TruthyInt(args.radius) THEN << <<"radius", ToString(args.radius.val)>> >> ELSE <<>>)

MaxPlaces == 5

place_info(place) ==
    <<"\nName: ", place.name,
      "\nAddress: ", Get(place, "formatted_address", "Address not available"),
      "\nRating: ", Get(place, "rating", "No rating"), " stars",
      "\nTypes: ">>
    \o Join(<<", ">>, [i \in 1..Len(Get(place, "types", <<>>)) |-> <<place.types[i]>>])
    \o <<"\nPlace ID: ", place.place_id, "\n">>

search_places(args, d) ==
    IF IsNone(d) \/ NoList(d, "results")
    THEN Returned(<<"No places found", " for the search query.">>)
    ELSE LET shown == Take(d.results, MaxPlaces) IN
         IF \E i \in 1..Len(shown) : ~Has(shown[i], "name") \/ ~Has(shown[i], "place_id")
         THEN Raised
         ELSE Returned(Join(<<"\n---\n">>, [i \in 1..Len(shown) |-> place_info(shown[i])]))

(* get_place_details *)

DetailFields ==
    "name,formatted_address,formatted_phone_number,website,rating,reviews,opening_hours,geometry"

get_place_details_params(args) ==
    << <<"place_id", args.place_id>>, <<"fields", DetailFields>> >>

MaxShownReviews == 3
ReviewTextLimit == 200

\* a review line that keeps text and ellipsis together within the limit
review_line_within_limit(review) ==
    <<"\n- ", review.author_name, " (", review.rating, " stars): ">>
    \o (IF Len(review.text) > ReviewTextLimit
        THEN Take(review.text, ReviewTextLimit - 3) \o <<"...">>
        ELSE review.text)
    \o <<"\n">>

\* the line of one review: review['text'][:200] followed by "..."
review_line(review) ==
    <<"\n- ", review.author_name, " (", review.rating, " stars): ">>
    \o Take(review.text, ReviewTextLimit) \o <<"...", "\n">>

\* the opening-hours block, for a truthy place['opening_hours']
opening_hours(hours) ==
    (IF Has(hours, "weekday_text") /\ Len(hours.weekday_text) > 0
     THEN <<"\nOpening Hours:\n">>
          \o Join(<<"\n">>, [i \in 1..Len(hours.weekday_text) |-> <<hours.weekday_text[i]>>])
     ELSE <<>>)
    \o <<"\nCurrently Open: ", IF Get(hours, "open_now", FALSE) THEN "Yes" ELSE "No">>

get_place_details(args, d) ==
    IF IsNone(d) \/ ~Has(d, "result") \/ DOMAIN d.result = {}
    THEN Returned(<<"Unable to", " fetch place details.">>)
    ELSE LET place == d.result
             shown == IF NoList(place, "reviews") THEN <<>>
                      ELSE Take(place.reviews, MaxShownReviews)
         IN
         IF \E i \in 1..Len(shown) :
                ~Has(shown[i], "author_name") \/ ~Has(shown[i], "rating") \/ ~Has(shown[i], "text")
         THEN Raised
         ELSE Returned(
                <<"\nName: ", Get(place, "name", "Unknown"),
                  "\nAddress: ", Get(place, "formatted_address", "Address not available"),
                  "\nPhone: ", Get(place, "formatted_phone_number", "Phone not available"),
                  "\nWebsite: ", Get(place, "website", "Website not available"),
                  "\nRating: ", Get(place, "rating", "No rating"), " stars\n">>
                \o (IF Has(place, "opening_hours") /\ DOMAIN place.opening_hours # {}
                    THEN opening_hours(place.opening_hours) ELSE <<>>)
                \o (IF NoList(place, "reviews") THEN <<>>
                    ELSE <<"\n\nRecent Reviews:">>
                         \o Flatten([i \in 1..Len(shown) |-> review_line(shown[i])])))

(* get_directions *)

ValidModes == {"driving", "walking", "bicycling", "transit"}

\* the membership test made on the capitalised list
InvalidModeAnyCase(mode) == mode \notin ValidModes \cup {"Driving"}

\* mode not in ["driving", "walking", "bicycling", "transit"]
InvalidMode(mode) == mode \notin ValidModes

InvalidModeText == <<"Invalid travel mode. Use: driving, walking, bicycling, or transit">>

\* mode.title(), of the modes the model passes
Title(mode) ==
    CASE mode = "driving" -> "Driving"
      [] mode = "walking" -> "Walking"
      [] mode = "bicycling" -> "Bicycling"
      [] mode = "transit" -> "Transit"
      [] mode = "flying" -> "Flying"
      [] mode = "Driving" -> "Driving"
      [] mode = "" -> ""

get_directions_params(args) ==
    << <<"origin", args.origin>>, <<"destination", args.destination>>, <<"mode", args.mode>> >>

\* str.replace(old, new) on a text of characters: every occurrence, left to right
RECURSIVE Replace(_, _, _)
Replace(s, old, new) ==
    IF Len(s) < Len(old) THEN s
    ELSE IF SubSeq(s, 1, Len(old)) = old
         THEN new \o Replace(SubSeq(s, Len(old) + 1, Len(s)), old, new)
         ELSE <<Head(s)>> \o Replace(Tail(s), old, new)

TagB == <<"<", "b", ">">>
TagBEnd == <<"<", "/", "b", ">">>
TagDiv == <<"<", "d", "i", "v", ">">>
TagDivEnd == <<"<", "/", "d", "i", "v", ">">>

\* what a "<div>" is replaced by
DivReplacement == <<" ">>

\* the chain of replacements without its last link
StripTagsKeepingDivEnd(html) ==
    Replace(Replace(Replace(html, TagB, <<>>), TagBEnd, <<>>), TagDiv, DivReplacement)

\* .replace("<b>", "").replace("</b>", "").replace("<div>", " ").replace("</div>", "")
StripTags(html) ==
    Replace(Replace(Replace(Replace(html, TagB, <<>>), TagBEnd, <<>>),
                    TagDiv, DivReplacement), TagDivEnd, <<>>)

MaxShownSteps == 10

step_line(i, step) ==
    <<ToString(i), ". ">> \o StripTags(step.html_instructions)
    \o <<" (", step.distance.text, ", ", step.duration.text, ")\n">>

get_directions(args, d) ==
    IF IsNone(d) \/ NoList(d, "routes")
    THEN Returned(<<"Unable to", " find directions for the specified route.">>)
    ELSE LET route == d.routes[1] IN
         IF NoList(route, "legs") THEN Raised
         ELSE LET leg == route.legs[1] IN
              IF \/ Missing2(leg, "distance", "text")
                 \/ Missing2(leg, "duration", "text")
                 \/ ~Has(leg, "steps")
              THEN Raised
              ELSE LET shown == Take(leg.steps, MaxShownSteps) IN
                   IF \E i \in 1..Len(shown) :
                        \/ ~Has(shown[i], "html_instructions")
                        \/ Missing2(shown[i], "distance", "text")
                        \/ Missing2(shown[i], "duration", "text")
                   THEN Raised
                   ELSE Returned(
                          <<"\nRoute Summary: ", Get(route, "summary", "Direct route"),
                            "\nDistance: ", leg.distance.text,
                            "\nDuration: ", leg.duration.text,
                            "\nTravel Mode: ", Title(args.mode),
                            "\n\nTurn-by-Turn Directions:\n">>
                          \o Flatten([i \in 1..Len(shown) |-> step_line(i, shown[i])]))

(* calculate_distance_matrix *)

calculate_distance_matrix_params(args) ==
    << <<"origins", JoinStr("|", args.origins)>>,
       <<"destinations", JoinStr("|", args.destinations)>>,
       <<"mode", args.mode>> >>

\* data["rows"][i]["elements"][j] and the fields read of it raise
ElementRaises(d, i, j) ==
    \/ i > Len(d.rows)
    \/ ~Has(d.rows[i], "elements")
    \/ j > Len(d.rows[i].elements)
    \/ LET element == d.rows[i].elements[j] IN
         \/ ~Has(element, "status")
         \/ /\ element.status = "OK"
            /\ Missing2(element, "distance", "text") \/ Missing2(element, "duration", "text")

element_line(destination, element) ==
    IF element.status = "OK"
    THEN <<"  To ", destination, ": ", element.distance.text,
           " (", element.duration.text, ")\n">>
    ELSE <<"  To ", destination, ": ", "Route not available\n">>

origin_block(d, i) ==
    <<"From: ", d.origin_addresses[i], "\n">>
    \o Flatten([j \in 1..Len(d.destination_addresses) |->
                    element_line(d.destination_addresses[j], d.rows[i].elements[j])])
    \o <<"\n">>

calculate_distance_matrix(args, d) ==
    IF IsNone(d) \/ NoList(d, "rows")
    THEN Returned(<<"Unable to", " calculate distance matrix.">>)
    ELSE IF ~Has(d, "origin_addresses") THEN Raised
    ELSE IF Len(d.origin_addresses) = 0
         THEN Returned(<<"Distance Matrix (", Title(args.mode), " mode):\n\n">>)
    ELSE IF ~Has(d, "destination_addresses") THEN Raised
    ELSE IF \E i \in 1..Len(d.origin_addresses), j \in 1..Len(d.destination_addresses) :
                ElementRaises(d, i, j)
         THEN Raised
         ELSE Returned(<<"Distance Matrix (", Title(args.mode), " mode):\n\n">>
                       \o Flatten([i \in 1..Len(d.origin_addresses) |-> origin_block(d, i)]))

(* get_elevation *)

\* f"{loc['lat']},{loc['lng']}" raises
LocationsRaise(locations) ==
    \E i \in 1..Len(locations) : ~Has(locations[i], "lat") \/ ~Has(locations[i], "lng")

get_elevation_params(args) ==
    << <<"locations",
         JoinStr("|", [i \in 1..Len(args.locations) |->
                        args.locations[i].lat \o "," \o args.locations[i].lng])>> >>

\* 3.28084 = 82021 / 25000
FeetNumerator == 82021
FeetDenominator == 25000

\* round(n / d) to the nearest integer, ties to even, for n >= 0 and d > 0
RoundDiv(n, d) ==
    LET q == n \div d
        r == n % d
    IN  IF 2 * r > d \/ (2 * r = d /\ q % 2 = 1) THEN q + 1 ELSE q

\* f"{x:.2f}" of x = c / 100
Fixed2(c) ==
    LET a == IF c < 0 THEN -c ELSE c IN
    (IF c < 0 THEN "-" ELSE "") \o ToString(a \div 100) \o "."
    \o (IF a % 100 < 10 THEN "0" ELSE "") \o ToString(a % 100)

\* elevation * 3.28084, in hundredths, of an elevation in hundredths
Feet(c) ==
    IF c < 0 THEN -RoundDiv((-c) * FeetNumerator, FeetDenominator)
    ELSE RoundDiv(c * FeetNumerator, FeetDenominator)

elevation_block(i, r) ==
    <<"Location ", ToString(i), ": ", r.location.lat, ", ", r.location.lng, "\n",
      "Elevation: ", Fixed2(r.elevation), " meters (", Fixed2(Feet(r.elevation)), " feet)\n",
      "Resolution: ", Fixed2(r.resolution), " meters\n\n">>

get_elevation(args, d) ==
    IF IsNone(d) \/ NoList(d, "results")
    THEN Returned(<<"Unable to", " fetch elevation data.">>)
    ELSE IF \E i \in 1..Len(d.results) :
                \/ Missing2(d.results[i], "location", "lat")
                \/ Missing2(d.results[i], "location", "lng")
                \/ ~Has(d.results[i], "elevation")
                \/ ~Has(d.results[i], "resolution")
         THEN Raised
         ELSE Returned(<<"Elevation Data:\n\n">>
                       \o Flatten([i \in 1..Len(d.results) |-> elevation_block(i, d.results[i])]))

---------------------------------------------------------------------------
(* Invocations.  A tool invocation is a coroutine; between two awaits it   *)
(* runs without interruption.  It suspends at client.get, and again where  *)
(* "async with" closes the client after the gateway has its return value.  *)

ModeOps == {"get_directions", "calculate_distance_matrix"}

\* the parameter mapping the operation builds from its arguments
ParamsOf(c) ==
    CASE c.op = "geocode_address" -> geocode_address_params(c.args)
      [] c.op = "reverse_geocode" -> reverse_geocode_params(c.args)
      [] c.op = "search_places" -> search_places_params(c.args)
      [] c.op = "get_place_details" -> get_place_details_params(c.args)
      [] c.op = "get_directions" -> get_directions_params(c.args)
      [] c.op = "calculate_distance_matrix" -> calculate_distance_matrix_params(c.args)
      [] c.op = "get_elevation" -> get_elevation_params(c.args)

\* the operation ends before it reaches the gateway
EndsEarly(c) ==
    \/ c.op \in ModeOps /\ InvalidMode(c.args.mode)
    \/ c.op = "get_elevation" /\ LocationsRaise(c.args.locations)

EarlyResult(c) ==
    IF c.op \in ModeOps THEN Returned(InvalidModeText) ELSE Raised

\* the operation's code after "data = await make_google_request(...)"
Render(c, d) ==
    CASE c.op = "geocode_address" -> geocode_address(c.args, d)
      [] c.op = "reverse_geocode" -> reverse_geocode(c.args, d)
      [] c.op = "search_places" -> search_places(c.args, d)
      [] c.op = "get_place_details" -> get_place_details(c.args, d)
      [] c.op = "get_directions" -> get_directions(c.args, d)
      [] c.op = "calculate_distance_matrix" -> calculate_distance_matrix(c.args, d)
      [] c.op = "get_elevation" -> get_elevation(c.args, d)

\* locals kept in one module-level place shared by every task
SharedFrame(t) == 1

\* where task t keeps its locals (params, data): its own coroutine frame
Frame(t) == t

NoCall == [op |-> "none"]
NoOutcome == [kind |-> "none"]

Keys == {"KEY-A", "KEY-B"}

Init ==
    /\ apiKey \in Keys
    /\ pc = [t \in Tasks |-> "idle"]
    /\ call = [t \in Tasks |-> NoCall]
    /\ params = [t \in Tasks |-> <<>>]
    /\ data = [t \in Tasks |-> None]
    /\ upstream = [t \in Tasks |-> NoOutcome]
    /\ result = [t \in Tasks |-> NoResult]
    /\ calls = [t \in Tasks |-> 0]
    /\ log = <<>>
    /\ invocations = 0
    /\ gatewayCalls = 0
    /\ httpGets = 0

\* the host invokes tool c as task t; it runs to its first await or to its end
Invoke(t, c, cap) ==
    /\ pc[t] = "idle"
    /\ invocations < cap
    /\ invocations' = invocations + 1
    /\ call' = [call EXCEPT ![t] = c]
    /\ IF EndsEarly(c)
       THEN /\ pc' = [pc EXCEPT ![t] = "done"]
            /\ result' = [result EXCEPT ![t] = EarlyResult(c)]
            /\ UNCHANGED <<params, calls, gatewayCalls, httpGets>>
       ELSE /\ pc' = [pc EXCEPT ![t] = "awaiting"]
            /\ params' = [params EXCEPT ![Frame(t)] = WithKey(ParamsOf(c), apiKey)]
            /\ calls' = [calls EXCEPT ![t] = calls[t] + 1]
            /\ gatewayCalls' = gatewayCalls + 1
            /\ httpGets' = httpGets + GetsPerRequest
            /\ UNCHANGED result
    /\ UNCHANGED <<apiKey, data, upstream, log>>

\* the network call of task t ends with outcome o; the gateway resumes, prints
\* and has its return value
Respond(t, o) ==
    /\ pc[t] = "awaiting"
    /\ pc' = [pc EXCEPT ![t] = "closing"]
    /\ upstream' = [upstream EXCEPT ![t] = o]
    /\ log' = log \o GatewayPrints(o, Url(Endpoint(call[t].op), params[Frame(t)]))
    /\ data' = [data EXCEPT ![Frame(t)] = make_google_request(o)]
    /\ UNCHANGED <<apiKey, call, params, result, calls, invocations, gatewayCalls, httpGets>>

\* the client is closed; the operation resumes with the gateway's value and ends
Finish(t) ==
    /\ pc[t] = "closing"
    /\ pc' = [pc EXCEPT ![t] = "done"]
    /\ result' = [result EXCEPT ![t] = Render(call[t], data[Frame(t)])]
    /\ UNCHANGED <<apiKey, call, params, data, upstream, calls, log, invocations,
                   gatewayCalls, httpGets>>

\* the host has the result (or the exception); the coroutine's frame is gone
Return(t) ==
    /\ pc[t] = "done"
    /\ pc' = [pc EXCEPT ![t] = "idle"]
    /\ call' = [call EXCEPT ![t] = NoCall]
    /\ params' = [params EXCEPT ![Frame(t)] = <<>>]
    /\ data' = [data EXCEPT ![Frame(t)] = None]
    /\ upstream' = [upstream EXCEPT ![t] = NoOutcome]
    /\ result' = [result EXCEPT ![t] = NoResult]
    /\ calls' = [calls EXCEPT ![t] = 0]
    /\ UNCHANGED <<apiKey, log, invocations, gatewayCalls, httpGets>>

---------------------------------------------------------------------------
(* Inputs: the calls a host makes and the outcomes the upstream service    *)
(* and the network produce.                                                *)

Merge(r1, r2) ==
    [k \in DOMAIN r1 \cup DOMAIN r2 |-> IF k \in DOMAIN r1 THEN r1[k] ELSE r2[k]]

Drop(r, k) == [x \in DOMAIN r \ {k} |-> r[x]]

EmptyDict == [k \in {} |-> ""]

Modes == {"driving", "transit", "flying", "Driving", ""}

Call(op, args) == [op |-> op, args |-> args]

GeocodeCalls == {Call("geocode_address", [address |-> "1600 Amphitheatre Parkway"])}

ReverseCalls == {Call("reverse_geocode", [latitude |-> "37.42", longitude |-> "-122.08"])}

SearchCalls ==
    {Call("search_places", [query |-> "pizza", location |-> l, radius |-> r]) :
        l \in {None, Some(""), Some("37.77,-122.41")}, r \in {None, Some(0), Some(500)}}

DetailsCalls == {Call("get_place_details", [place_id |-> "ChIJ2e"])}

DirectionsCalls ==
    {Call("get_directions", [origin |-> "A", destination |-> "B", mode |-> m]) : m \in Modes}

MatrixCalls ==
    {Call("calculate_distance_matrix",
          [origins |-> <<"A", "B">>, destinations |-> <<"X">>, mode |-> m]) : m \in Modes}

ElevationCalls ==
    {Call("get_elevation", [locations |-> l]) :
        l \in {<< [lat |-> "37.77", lng |-> "-122.41"] >>, << [lat |-> "37.77"] >>}}

Calls ==
    GeocodeCalls \cup ReverseCalls \cup SearchCalls \cup DetailsCalls
    \cup DirectionsCalls \cup MatrixCalls \cup ElevationCalls

\* the records of successful payloads
GeoResult ==
    [formatted_address |-> "1600 Amphitheatre Parkway, Mountain View, CA, USA",
     geometry |-> [location |-> [lat |-> "37.4224764", lng |-> "-122.0842499"]],
     place_id |-> "ChIJ2eUgeAK6j4ARbn5u_wAGqWA"]

Place(n) ==
    [name |-> "Pizzeria " \o ToString(n), formatted_address |-> "1 Main St",
     rating |-> "4.5", types |-> <<"restaurant", "food">>, place_id |-> "P" \o ToString(n)]

Review(n, text) == [author_name |-> "Author " \o ToString(n), rating |-> ToString(n), text |-> text]

PlaceDetails ==
    [name |-> "Pizzeria", formatted_address |-> "1 Main St",
     formatted_phone_number |-> "555-0100", website |-> "https://pizzeria.example",
     rating |-> "4.5",
     opening_hours |-> [weekday_text |-> <<"Monday: 9-5", "Tuesday: 9-5">>, open_now |-> TRUE],
     reviews |-> << Review(1, <<"g", "o", "o", "d">>) >>]

TextOf(t) == [text |-> t]

Step(n, html) ==
    [html_instructions |-> html, distance |-> TextOf(ToString(n) \o " km"),
     duration |-> TextOf(ToString(n) \o " mins")]

Leg(steps) == [distance |-> TextOf("12 km"), duration |-> TextOf("20 mins"), steps |-> steps]

Route(steps) == [summary |-> "US-101 N", legs |-> << Leg(steps) >>]

TwoSteps == << Step(1, <<"G", "o", " ", "<", "b", ">", "N", "<", "/", "b", ">">>),
               Step(2, <<"T", "u", "r", "n">>) >>

Element(status) == [status |-> status, distance |-> TextOf("5 km"), duration |-> TextOf("9 mins")]

Row(elements) == [elements |-> elements]

Matrix(origins, destinations, rows) ==
    [origin_addresses |-> origins, destination_addresses |-> destinations, rows |-> rows]

Elevation == [location |-> [lat |-> "37.77", lng |-> "-122.41"], elevation |-> 10000, resolution |-> 954]

\* a complete successful payload of each operation
FullPayload(op) ==
    CASE op = "geocode_address" -> [results |-> << GeoResult >>]
      [] op = "reverse_geocode" -> [results |-> << GeoResult >>]
      [] op = "search_places" -> [results |-> << Place(1) >>]
      [] op = "get_place_details" -> [result |-> PlaceDetails]
      [] op = "get_directions" -> [routes |-> << Route(TwoSteps) >>]
      [] op = "calculate_distance_matrix" ->
            Matrix(<<"A St", "B St">>, <<"X St">>,
                   << Row(<< Element("OK") >>), Row(<< Element("NOT_FOUND") >>) >>)
      [] op = "get_elevation" -> [results |-> << Elevation >>]

\* successful payloads in which fields are absent
PartialPayloads(op) ==
    CASE op = "geocode_address" ->
            {[results |-> << Drop(GeoResult, "geometry") >>],
             [results |-> << Drop(GeoResult, "place_id") >>],
             [results |-> << [GeoResult EXCEPT !.geometry = EmptyDict] >>]}
      [] op = "reverse_geocode" ->
            {[results |-> << Drop(GeoResult, "formatted_address") >>],
             [results |-> << Drop(GeoResult, "geometry") >>]}
      [] op = "search_places" ->
            {[results |-> << [name |-> "Pizzeria 1", place_id |-> "P1"] >>],
             [results |-> << Drop(Place(1), "name") >>],
             [results |-> [n \in 1..(MaxPlaces + 1) |-> Place(n)]]}
      [] op = "get_place_details" ->
            {[result |-> [name |-> "Pizzeria"]],
             [result |-> [PlaceDetails EXCEPT !.opening_hours = [open_now |-> FALSE]]],
             [result |-> [PlaceDetails EXCEPT !.reviews = << Drop(Review(1, <<"o", "k">>), "author_name") >>]]}
      [] op = "get_directions" ->
            {[routes |-> << Drop(Route(TwoSteps), "summary") >>],
             [routes |-> << Drop(Route(TwoSteps), "legs") >>],
             [routes |-> << Route(<< Drop(Step(1, <<"G", "o">>), "html_instructions") >>) >>]}
      [] op = "calculate_distance_matrix" ->
            {Matrix(<<"A St", "B St">>, <<"X St">>, << Row(<< Element("OK") >>) >>),
             Matrix(<<"A St">>, <<"X St">>, << Row(<< Drop(Element("OK"), "duration") >>) >>),
             Drop(Matrix(<<"A St">>, <<"X St">>, << Row(<< Element("OK") >>) >>), "origin_addresses")}
      [] op = "get_elevation" ->
            {[results |-> << Drop(Elevation, "resolution") >>],
             [results |-> << Drop(Elevation, "elevation") >>]}

\* the payload with its expected result list empty
EmptyPayload(op) ==
    CASE op \in {"geocode_address", "reverse_geocode", "search_places", "get_elevation"} ->
            [results |-> <<>>]
      [] op = "get_place_details" -> [result |-> EmptyDict]
      [] op = "get_directions" -> [routes |-> <<>>]
      [] op = "calculate_distance_matrix" ->
            Matrix(<<>>, <<>>, <<>>)

OK(payload) == Json(Merge([status |-> "OK"], payload))

\* upstream failures: transport, HTTP status, unreadable body, a status that is
\* not "OK" (or absent), an "OK" payload with its result list empty or missing
Failures(op) ==
    {TransportError, HttpError, NotJson, NonDict,
     Json(Merge([status |-> "ZERO_RESULTS"], EmptyPayload(op))),
     Json([status |-> "REQUEST_DENIED", error_message |-> "The provided API key is invalid."]),
     Json(Merge([status |-> "UNKNOWN_ERROR"], FullPayload(op))),
     Json(FullPayload(op)),
     OK(EmptyPayload(op)),
     Json([status |-> "OK"])}

Successes(op) == {OK(FullPayload(op))} \cup {OK(p) : p \in PartialPayloads(op)}

Outcomes(op) == Failures(op) \cup Successes(op)

(* One invocation at a time, every operation, every outcome *)

Next ==
    \/ \E c \in Calls : Invoke(1, c, SeqInvocations)
    \/ pc[1] = "awaiting" /\ \E o \in Outcomes(call[1].op) : Respond(1, o)
    \/ Finish(1)
    \/ Return(1)

Spec == Init /\ [][Next]_vars

(* Several invocations in flight at once *)

ConcurrentCalls ==
    GeocodeCalls
    \cup {Call("get_directions", [origin |-> "A", destination |-> "B", mode |-> m]) :
            m \in {"driving", "flying"}}

ConcurrentOutcomes(op) ==
    {TransportError, HttpError,
     Json(Merge([status |-> "ZERO_RESULTS"], EmptyPayload(op))), OK(FullPayload(op))}

NextConcurrent ==
    \E t \in Tasks :
        \/ \E c \in ConcurrentCalls : Invoke(t, c, MaxInvocations)
        \/ pc[t] = "awaiting" /\ \E o \in ConcurrentOutcomes(call[t].op) : Respond(t, o)
        \/ Finish(t)
        \/ Return(t)

SpecConcurrent == Init /\ [][NextConcurrent]_vars

(* get_directions alone: instructions built from markup fragments, and    *)
(* legs of every length around the limit of shown steps                    *)

Fragments ==
    {TagB, TagBEnd, TagDiv, TagDivEnd,
     <<"<">>, <<"b", ">">>, <<"d", "i", "v", ">">>, <<"N">>,
     <<"<", "a", " ", "h", ">">>}

RECURSIVE Concats(_)
Concats(k) ==
    IF k = 0 THEN {<<>>}
    ELSE Concats(k - 1) \cup {f \o r : f \in Fragments, r \in Concats(k - 1)}

Instructions == Concats(MaxFragments)

SampleInstructions ==
    << <<"G", "o", " ", "<", "b", ">", "N", "<", "/", "b", ">">>,
       <<"T", "o", "<", "d", "i", "v", ">", "T", "o", "l", "l", "<", "/", "d", "i", "v", ">">>,
       <<"U", "<", "e", "m", ">", "t", "<", "/", "e", "m", ">">> >>

SampleSteps(n) == [i \in 1..n |-> Step(i, SampleInstructions[(i % 3) + 1])]

DirectionsPayloads ==
    {[routes |-> << Route(<< Step(1, html) >>) >>] : html \in Instructions}
    \cup {[routes |-> << Route(SampleSteps(n)) >>] : n \in 0..MaxSteps}
    \cup {[routes |-> << Route(SampleSteps(2)), Route(SampleSteps(1)) >>],
          [routes |-> << [summary |-> "I-5", legs |-> << Leg(SampleSteps(2)), Leg(SampleSteps(1)) >>] >>]}

\* one invocation with a mode the operation accepts
WalkingCalls ==
    {Call("get_directions", [origin |-> "A", destination |-> "B", mode |-> "walking"])}

NextDirections ==
    \/ \E c \in WalkingCalls : Invoke(1, c, SeqInvocations)
    \/ pc[1] = "awaiting" /\ \E p \in DirectionsPayloads : Respond(1, OK(p))
    \/ Finish(1)
    \/ Return(1)

SpecDirections == Init /\ [][NextDirections]_vars

(* get_place_details alone: reviews of every number around the limit of   *)
(* shown reviews, with texts of every length around the limit of 200       *)

Digits == <<"0", "1", "2", "3", "4", "5", "6", "7", "8", "9">>

TextOfLength(n) == [i \in 1..n |-> Digits[(i % 10) + 1]]

ReviewLengths == {0, 200, 201, 205}

ReviewLists ==
    UNION {{[i \in 1..n |-> Review(i, TextOfLength(len[i]))] : len \in [1..n -> ReviewLengths]} :
            n \in 0..MaxReviews}

DetailsPayloads == {[result |-> [PlaceDetails EXCEPT !.reviews = r]] : r \in ReviewLists}

NextDetails ==
    \/ \E c \in DetailsCalls : Invoke(1, c, SeqInvocations)
    \/ pc[1] = "awaiting" /\ \E p \in DetailsPayloads : Respond(1, OK(p))
    \/ Finish(1)
    \/ Return(1)

SpecDetails == Init /\ [][NextDetails]_vars

(* calculate_distance_matrix alone: every shape of rows and elements       *)

SeqsUpTo(S, n) == UNION {[1..k -> S] : k \in 0..n}

Elements == {Element("OK"), Drop(Element("OK"), "distance"), Element("NOT_FOUND")}

RowsOfMatrix == {Row(e) : e \in SeqsUpTo(Elements, MaxDestinations)}

OriginNames == <<"A St", "B St", "C St", "D St">>
DestinationNames == <<"X St", "Y St", "Z St", "W St">>

MatrixPayloads ==
    {Matrix(SubSeq(OriginNames, 1, no), SubSeq(DestinationNames, 1, nd), rows) :
        no \in 0..MaxOrigins, nd \in 0..MaxDestinations,
        rows \in SeqsUpTo(RowsOfMatrix, MaxOrigins) \ {<<>>}}

\* one invocation naming two origins and two destinations
SquareMatrixCalls ==
    {Call("calculate_distance_matrix",
          [origins |-> <<"A", "B">>, destinations |-> <<"X", "Y">>, mode |-> "driving"])}

NextMatrix ==
    \/ \E c \in SquareMatrixCalls : Invoke(1, c, SeqInvocations)
    \/ pc[1] = "awaiting" /\ \E p \in MatrixPayloads : Respond(1, OK(p))
    \/ Finish(1)
    \/ Return(1)

SpecMatrix == Init /\ [][NextMatrix]_vars

---------------------------------------------------------------------------
(* Properties *)

Active(t) == pc[t] \in {"awaiting", "closing", "done"}

\* the invocation of task t went through the gateway and has ended
Completed(t) == pc[t] = "done" /\ calls[t] > 0

\* the key under which each operation expects its result list
ListKey(op) ==
    CASE op \in {"geocode_address", "reverse_geocode", "search_places", "get_elevation"} -> "results"
      [] op = "get_place_details" -> "result"
      [] op = "get_directions" -> "routes"
      [] op = "calculate_distance_matrix" -> "rows"

\* an "OK" payload with a non-empty result list
UpstreamSucceeded(op, o) ==
    /\ o.kind = "json"
    /\ Has(o.body, "status") /\ o.body.status = "OK"
    /\ Has(o.body, ListKey(op))
    /\ DOMAIN o.body[ListKey(op)] # {}

\* transport error, HTTP error status, unreadable body, status not "OK", or an
\* "OK" payload whose result list is empty or missing
UpstreamFailed(op, o) == ~UpstreamSucceeded(op, o)

FailureText(op) ==
    CASE op = "geocode_address" -> <<"Unable to", " geocode the provided address.">>
      [] op = "reverse_geocode" -> <<"Unable to", " reverse geocode the provided coordinates.">>
      [] op = "search_places" -> <<"No places found", " for the search query.">>
      [] op = "get_place_details" -> <<"Unable to", " fetch place details.">>
      [] op = "get_directions" -> <<"Unable to", " find directions for the specified route.">>
      [] op = "calculate_distance_matrix" -> <<"Unable to", " calculate distance matrix.">>
      [] op = "get_elevation" -> <<"Unable to", " fetch elevation data.">>

\* C1, as amended: after any upstream failure the operation returns, without
\* raising, exactly its own fixed failure text, whatever the kind of failure and
\* whatever the service sent; the text is an "Unable to ..." message for six
\* operations and "No places found for the search query." for search_places.
C1_FixedFailureText ==
    \A t \in Tasks :
        Completed(t) /\ UpstreamFailed(call[t].op, upstream[t])
        => result[t] = [raised |-> FALSE, text |-> FailureText(call[t].op)]

\* C1 as stated: after any upstream failure every operation returns an
\* "unable to ..." message.
C1_UnableToMessage ==
    \A t \in Tasks :
        Completed(t) /\ UpstreamFailed(call[t].op, upstream[t])
        => /\ ~result[t].raised
           /\ Len(result[t].text) > 0
           /\ result[t].text[1] = "Unable to"

\* C1's case: get_directions has met a payload whose status is not "OK" although it
\* carries routes, and has returned its failure text.
C1_Witness ==
    \E t \in Tasks :
        /\ Completed(t)
        /\ call[t].op = "get_directions"
        /\ upstream[t].kind = "json"
        /\ Has(upstream[t].body, "status") /\ upstream[t].body.status = "UNKNOWN_ERROR"
        /\ Has(upstream[t].body, "routes")
        /\ result[t].text = <<"Unable to", " find directions for the specified route.">>

\* C2: an operation that met an "OK" payload with a non-empty result list returns
\* a text and never raises, whichever fields of the records are missing.
C2_NeverRaises ==
    \A t \in Tasks :
        Completed(t) /\ UpstreamSucceeded(call[t].op, upstream[t]) => ~result[t].raised

\* C3: get_directions and calculate_distance_matrix called with a mode outside
\* {driving, walking, bicycling, transit} return the invalid-travel-mode text
\* having called the gateway zero times; called with a mode inside the set they
\* call the gateway with that mode among the parameters.
C3_ModeCheckedBeforeGateway ==
    \A t \in Tasks :
        Active(t) /\ call[t].op \in {"get_directions", "calculate_distance_matrix"}
        => IF call[t].args.mode \in {"driving", "walking", "bicycling", "transit"}
           THEN /\ calls[t] = 1
                /\ \E i \in 1..Len(params[t]) : params[t][i] = <<"mode", call[t].args.mode>>
           ELSE /\ pc[t] = "done"
                /\ calls[t] = 0
                /\ params[t] = <<>>
                /\ result[t] = [raised |-> FALSE,
                                text |-> <<"Invalid travel mode. Use: driving, walking, bicycling, or transit">>]

\* C3's case: calculate_distance_matrix was called with mode "Driving" and has ended
\* without a gateway call, after an earlier invocation that did call the gateway.
C3_Witness ==
    \E t \in Tasks :
        /\ pc[t] = "done"
        /\ call[t].op = "calculate_distance_matrix"
        /\ call[t].args.mode = "Driving"
        /\ calls[t] = 0
        /\ gatewayCalls = 1
        /\ httpGets = 1

\* C4: the credential appears in no line the gateway prints and in no text an
\* operation returns.
C4_CredentialNotEmitted ==
    /\ \A i \in 1..Len(log) : ~Contains(log[i], apiKey)
    /\ \A t \in Tasks : ~Contains(result[t].text, apiKey)

ParamKeys(p) == {p[i][1] : i \in 1..Len(p)}

\* C8: search_places sends "location" exactly when a location was supplied and
\* "radius" exactly when a radius was supplied, the empty location string and
\* radius 0 included.
C8_OptionalSentIffSupplied ==
    \A t \in Tasks :
        Active(t) /\ call[t].op = "search_places"
        => /\ "location" \in ParamKeys(params[t]) <=> ~IsNone(call[t].args.location)
           /\ "radius" \in ParamKeys(params[t]) <=> ~IsNone(call[t].args.radius)

\* C9: an invocation makes at most one gateway call, a gateway call issues one
\* HTTP GET whatever the outcome, and the requests sent never outnumber the
\* invocations.
C9_SingleAttempt ==
    /\ \A t \in Tasks : calls[t] <= 1
    /\ httpGets = gatewayCalls
    /\ httpGets <= invocations

\* C9's case: three invocations have started, two of them reached the gateway and
\* one has already met a failure.
C9_Witness ==
    /\ invocations = 3
    /\ httpGets = 2
    /\ Len(log) > 0
    /\ \E t \in Tasks : pc[t] = "done" /\ calls[t] = 1 /\ upstream[t].kind = "json"
                        /\ upstream[t].body.status = "ZERO_RESULTS"

\* the parameter mapping and the result of call c run alone under key k with
\* upstream outcome o
AloneParams(c, k) == ParamsOf(c) \o << <<"key", k>> >>
AloneResult(c, o) == Render(c, IF o.kind = "json" /\ o.body.status = "OK" THEN o.body ELSE None)

C10_Isolated ==
    \A t \in Tasks :
        /\ pc[t] \in {"awaiting", "closing"} => params[t] = AloneParams(call[t], apiKey)
        /\ Completed(t) => result[t] = AloneResult(call[t], upstream[t])

\* C10: under every interleaving each invocation in flight holds its own
\* parameter mapping and returns the text it returns when run alone with the
\* same arguments and upstream outcome, and the credential is never written
\* after startup.
C10_NoInterference == [] C10_Isolated /\ [][apiKey' = apiKey]_vars

\* C10's case: two invocations with different upstream outcomes are in flight
\* together, one has returned its report and the other is still suspended.
C10_Witness ==
    /\ pc[1] = "done" /\ pc[2] = "closing"
    /\ calls[1] = 1
    /\ upstream[1] # upstream[2]
    /\ call[1] # call[2]
    /\ result[1].text # <<>>

\* the places of token tok in text, and the k-th of them
Places(text, tok) == {i \in 1..Len(text) : text[i] = tok}
Kth(P, k) == CHOOSE i \in P : Cardinality({j \in P : j < i}) = k - 1

IsAt(s, i, tag) == i + Len(tag) - 1 <= Len(s) /\ SubSeq(s, i, i + Len(tag) - 1) = tag

\* the place of the first occurrence of tag in s, or 0
FirstAt(s, tag) ==
    IF \E i \in 1..Len(s) : IsAt(s, i, tag)
    THEN CHOOSE i \in 1..Len(s) : IsAt(s, i, tag) /\ \A j \in 1..(i - 1) : ~IsAt(s, j, tag)
    ELSE 0

\* one pass over s: every occurrence of tag, found from the left, becomes with
RECURSIVE Pass(_, _, _)
Pass(s, tag, with) ==
    LET i == FirstAt(s, tag) IN
    IF i = 0 THEN s
    ELSE SubSeq(s, 1, i - 1) \o with \o Pass(SubSeq(s, i + Len(tag), Len(s)), tag, with)

FourPasses(html) ==
    Pass(Pass(Pass(Pass(html, <<"<", "b", ">">>, <<>>), <<"<", "/", "b", ">">>, <<>>),
              <<"<", "d", "i", "v", ">">>, <<" ">>),
         <<"<", "/", "d", "i", "v", ">">>, <<>>)

\* html with every occurrence of the four tags deleted and nothing put in its place
RECURSIVE TagsDeleted(_)
TagsDeleted(s) ==
    IF s = <<>> THEN <<>>
    ELSE IF \E tag \in {TagB, TagBEnd, TagDiv, TagDivEnd} : IsAt(s, 1, tag)
         THEN LET tag == CHOOSE g \in {TagB, TagBEnd, TagDiv, TagDivEnd} : IsAt(s, 1, g)
              IN  TagsDeleted(SubSeq(s, Len(tag) + 1, Len(s)))
         ELSE <<Head(s)>> \o TagsDeleted(Tail(s))

DirectionsHeaderLength == 9

\* the step lines of a report: what follows its five header lines
StepLines(text) == SubSeq(text, DirectionsHeaderLength + 1, Len(text))

FirstLegSteps(o) == o.body.routes[1].legs[1].steps

RenderedDirections(t) ==
    /\ Completed(t)
    /\ call[t].op = "get_directions"
    /\ UpstreamSucceeded("get_directions", upstream[t])

\* C6, as amended: each rendered instruction is the step's html_instructions
\* after four successive passes, in this order: every "<b>" deleted, every
\* "</b>" deleted, every "<div>" replaced by one space, every "</div>" deleted
\* (a later pass also acts on a tag that an earlier deletion put together), every
\* other character unchanged; the rendered steps are the first min(10, n) steps
\* of the first leg of the first route, in order, numbered from 1.
C6_FourPassesFirstTenSteps ==
    \A t \in Tasks :
        RenderedDirections(t)
        => LET steps == FirstLegSteps(upstream[t])
               shown == IF Len(steps) < 10 THEN Len(steps) ELSE 10
           IN  /\ ~result[t].raised
               /\ StepLines(result[t].text) =
                    Flatten([i \in 1..shown |->
                        <<ToString(i), ". ">> \o FourPasses(steps[i].html_instructions)
                        \o <<" (", steps[i].distance.text, ", ", steps[i].duration.text, ")\n">>])

\* C6 as stated: each rendered instruction is the html_instructions with every
\* occurrence of the four tags deleted, nothing inserted and every other
\* character unchanged; the first min(10, n) steps are rendered.
C6_TagsDeletedNothingInserted ==
    \A t \in Tasks :
        RenderedDirections(t)
        => LET steps == FirstLegSteps(upstream[t])
               shown == IF Len(steps) < 10 THEN Len(steps) ELSE 10
           IN  /\ ~result[t].raised
               /\ StepLines(result[t].text) =
                    Flatten([i \in 1..shown |->
                        <<ToString(i), ". ">> \o TagsDeleted(steps[i].html_instructions)
                        \o <<" (", steps[i].distance.text, ", ", steps[i].duration.text, ")\n">>])

\* C6's case: a leg of more than ten steps, with "<div>" and "<b>" among the
\* instructions of its first ten, has been rendered.
C6_Witness ==
    \E t \in Tasks :
        /\ RenderedDirections(t)
        /\ Len(FirstLegSteps(upstream[t])) > 10
        /\ \E i, j \in 1..10 :
                /\ FirstAt(FirstLegSteps(upstream[t])[i].html_instructions, TagDiv) > 0
                /\ FirstAt(FirstLegSteps(upstream[t])[j].html_instructions, TagB) > 0
        /\ Contains(result[t].text, "10")
        /\ ~Contains(result[t].text, "11")

RenderedDetails(t) ==
    /\ Completed(t)
    /\ call[t].op = "get_place_details"
    /\ UpstreamSucceeded("get_place_details", upstream[t])
    /\ Has(upstream[t].body.result, "reviews")

C5_OneLinePerPair ==
    \A t \in Tasks :
        /\ Completed(t)
        /\ call[t].op = "calculate_distance_matrix"
        /\ UpstreamSucceeded("calculate_distance_matrix", upstream[t])
        /\ Has(upstream[t].body, "origin_addresses")
        /\ Has(upstream[t].body, "destination_addresses")
        => LET origins == upstream[t].body.origin_addresses
               destinations == upstream[t].body.destination_addresses
           IN  /\ ~result[t].raised
               /\ Cardinality(Places(result[t].text, "From: ")) = Len(origins)
               /\ Cardinality(Places(result[t].text, "  To ")) = Len(origins) * Len(destinations)

====
